---- MODULE Spec2Model ----
(***************************************************************************)
(* Model of the graph library: the undirected class graph (graph.py,      *)
(* graphs.py), the directed class digraph (digraph.py), the random edge   *)
(* generator with its weighted sampler, and the depth-first traversals    *)
(* dfs, spanning_forest and connected_components.                         *)
(*                                                                         *)
(* A graph object is a record                                              *)
(*    [cls, verts, ve_dict, degs, nv, ne]                                  *)
(* verts is the key order of ve_dict (dicts iterate in insertion order),  *)
(* ve_dict maps a vertex to its neighbour set, degs is the counter dict   *)
(* (self.degs of graph, self.out_deg of digraph).                         *)
(* Python values True/False/None and raised exceptions are strings.       *)
(*                                                                         *)
(* The state is one object G, the record res of the call in progress or    *)
(* last completed, and the locals of the traversal in progress.  add_edge, *)
(* add_rand_edge, subgraph and reverse are one step each; dfs,             *)
(* spanning_forest and connected_components take one step per loop round,  *)
(* so that the neighbour sets can iterate in any order.                    *)
(***************************************************************************)
EXTENDS Integers, Sequences, FiniteSets, TLC

\* Largest number of vertices of the object under test: graph(range(n)) or
\* digraph(range(n)) for n in 0 .. MaxNV.
MaxNV == 3

\* Largest number of vertices of the object under test where calls are made
\* on it and on the graphs derived from it (SpecDerive).
MaxDV == 2

\* Largest number of vertices of the object under test where only add_edge
\* and add_rand_edge are called (SpecRand): the float sum of the weights of
\* add_rand_edge differs from 1.0 for no object of fewer than 4 vertices.
MaxRV == 4

\* Largest number of vertices of an object constructed with a seed edge
\* mapping (SpecSeed); the keys and the members of the values of the mapping
\* are labels in 0 .. MaxSV, at least one of which is not a vertex.
MaxSV == 2

\* Largest number of vertices of the object under test where the caller
\* changes the sets that indexing returns (SpecView); the elements added or
\* removed are labels in 0 .. MaxGV, at least one of which is not a vertex.
MaxGV == 2

\* Labels a caller may pass to add_edge: the vertices 0..nv-1 (range(nv), as
\* in the __main__ blocks) and at least one label that is not a vertex.
Labels == 0 .. MaxNV

Range(s) == {s[k] : k \in 1 .. Len(s)}

RECURSIVE SumLen(_, _)
\* sum(map(len, d.values())) restricted to the keys in S
SumLen(d, S) ==
    IF S = {} THEN 0
    ELSE LET k == CHOOSE x \in S : TRUE
         IN  Cardinality(d[k]) + SumLen(d, S \ {k})

\* n / 2 for an even n.  graph.__init__ halves the sum of the neighbour-set
\* sizes, which is even whenever the neighbour relation is symmetric; an odd
\* sum has the float n / 2 as its half, which is no integer, and Half is
\* then undefined.
Half(n) == CHOOSE h \in 0 .. n : 2 * h = n

\* An empty dict: the default edge_dict = {}.
EmptyDict == << >>

\* d.get(k, default)
DictGet(d, k, default) == IF k \in DOMAIN d THEN d[k] ELSE default

\* The vertices whose neighbour set in the instance that __init__ builds is
\* the caller's own set object edge_dict[v]: edge_dict.get(v, set()) hands
\* the caller's set on without copying it, and makes a new set for a v that
\* edge_dict lacks.
init_keeps(verts, edge_dict) == Range(verts) \cap DOMAIN edge_dict

(***************************************************************************)
(* class graph                                                             *)
(***************************************************************************)

\* graph.__init__(verts, edge_dict): the neighbour sets come from edge_dict,
\* the degree counters start at 0 whatever edge_dict holds, ne is half the
\* sum of the neighbour-set sizes.
graph_init(verts, edge_dict) ==
    LET keys == Range(verts)
        ve   == [v \in keys |-> DictGet(edge_dict, v, {})]
    IN  [cls     |-> "graph",
         verts   |-> verts,
         ve_dict |-> ve,
         degs    |-> [v \in keys |-> 0],
         nv      |-> Len(verts),
         ne      |-> Half(SumLen(ve, keys))]

\* graph.add_edge with the statement self.degs[j] += 1 left out.
graph_add_edge_one_deg(g, i, j) ==
    IF i \in DOMAIN g.ve_dict /\ j \in DOMAIN g.ve_dict
    THEN IF i = j
         THEN [g |-> g, ret |-> "False"]
         ELSE IF i \notin g.ve_dict[j]
              THEN [g   |-> [g EXCEPT !.ne = @ + 1,
                                      !.degs[i] = @ + 1,
                                      !.ve_dict[i] = @ \cup {j},
                                      !.ve_dict[j] = @ \cup {i}],
                    ret |-> "True"]
              ELSE [g |-> g, ret |-> "False"]
    ELSE [g |-> g, ret |-> "False"]

\* graph.add_edge with the test i == j left out.
graph_add_edge_self_loop(g, i, j) ==
    IF i \in DOMAIN g.ve_dict /\ j \in DOMAIN g.ve_dict
    THEN IF i \notin g.ve_dict[j]
         THEN [g   |-> [[g EXCEPT !.ne = @ + 1,
                                  !.degs[i] = @ + 1,
                                  !.ve_dict[i] = @ \cup {j}]
                           EXCEPT !.degs[j] = @ + 1,
                                  !.ve_dict[j] = @ \cup {i}],
               ret |-> "True"]
         ELSE [g |-> g, ret |-> "False"]
    ELSE [g |-> g, ret |-> "False"]

\* graph.add_edge(i, j): the new object state and the returned value.
graph_add_edge(g, i, j) ==
    IF i \in DOMAIN g.ve_dict /\ j \in DOMAIN g.ve_dict
    THEN IF i = j
         THEN [g |-> g, ret |-> "False"]
         ELSE IF i \notin g.ve_dict[j]
              THEN [g   |-> [g EXCEPT !.ne = @ + 1,
                                      !.degs[i] = @ + 1,
                                      !.degs[j] = @ + 1,
                                      !.ve_dict[i] = @ \cup {j},
                                      !.ve_dict[j] = @ \cup {i}],
                    ret |-> "True"]
              ELSE [g |-> g, ret |-> "False"]
    ELSE [g |-> g, ret |-> "False"]

\* graph.subgraph with some_edges not passed on: graph(some_verts).
graph_subgraph_no_edges(g, some_verts) ==
    graph_init(some_verts, EmptyDict)

\* graph.subgraph(some_verts): some_verts is a sequence of vertices of g.
graph_subgraph(g, some_verts) ==
    LET members    == Range(some_verts)
        some_edges == [v \in members |->
                         {e \in g.ve_dict[v] : e \in members}]
    IN  graph_init(some_verts, some_edges)

\* graph.subgraph with the sets of self handed to the constructor:
\* some_edges = dict([(v, self.ve_dict[v]) for v in some_verts]).
graph_subgraph_shared_alias(g, some_verts) == Range(some_verts)

\* The vertices v of the graph G.subgraph(some_verts) returns whose neighbour
\* set is the very object g.ve_dict[v]: the constructor keeps the values of
\* some_edges, and each of them is a new object made by set([...]).
graph_subgraph_shared(g, some_verts) ==
    LET members    == Range(some_verts)
        some_edges == [v \in members |->
                         [is_new |-> TRUE,
                          set    |-> {e \in g.ve_dict[v] : e \in members}]]
    IN  {v \in init_keeps(some_verts, some_edges) : ~some_edges[v].is_new}

\* graph.is_complete with the bound of a digraph: nv * (nv - 1) edges.
graph_is_complete_directed(g) == g.ne = g.nv * (g.nv - 1)

\* graph.is_complete()
graph_is_complete(g) == 2 * g.ne = g.nv * (g.nv - 1)

(***************************************************************************)
(* class digraph                                                           *)
(***************************************************************************)

\* digraph.__init__(verts, edge_dict)
digraph_init(verts, edge_dict) ==
    LET keys == Range(verts)
        ve   == [v \in keys |-> DictGet(edge_dict, v, {})]
    IN  [cls     |-> "digraph",
         verts   |-> verts,
         ve_dict |-> ve,
         degs    |-> [v \in keys |-> 0],
         nv      |-> Len(verts),
         ne      |-> SumLen(ve, keys)]

\* digraph.add_edge(v, w): a directed edge from v to w.
digraph_add_edge(g, v, w) ==
    IF v \in DOMAIN g.ve_dict /\ w \in DOMAIN g.ve_dict
    THEN IF v = w
         THEN [g |-> g, ret |-> "False"]
         ELSE IF w \notin g.ve_dict[v]
              THEN [g   |-> [g EXCEPT !.ne = @ + 1,
                                      !.degs[v] = @ + 1,
                                      !.ve_dict[v] = @ \cup {w}],
                    ret |-> "True"]
              ELSE [g |-> g, ret |-> "False"]
    ELSE [g |-> g, ret |-> "False"]

\* digraph.is_complete()
digraph_is_complete(g) == g.ne = g.nv * (g.nv - 1)

RECURSIVE reverse_loop(_, _, _)
\* The two nested loops of digraph.reverse over the edges (v, w) of src that
\* are still to be visited: reverse_graph.add_edge(w, v) for each.
reverse_loop(rg, src, todo) ==
    IF todo = {} THEN rg
    ELSE LET e == CHOOSE x \in todo : TRUE
         IN  reverse_loop(digraph_add_edge(rg, e[2], e[1]).g, src,
                          todo \ {e})

\* The pairs (v, w) with w in ve_dict[v].
Edges(g) ==
    UNION {{<<v, w>> : w \in g.ve_dict[v]} : v \in DOMAIN g.ve_dict}

\* digraph.reverse with reverse_graph.add_edge(v, w) for add_edge(w, v).
digraph_reverse_unswapped(g) ==
    reverse_loop(digraph_init(g.verts, EmptyDict), g,
                 {<<e[2], e[1]>> : e \in Edges(g)})

\* digraph.reverse()
digraph_reverse(g) ==
    reverse_loop(digraph_init(g.verts, EmptyDict), g, Edges(g))

(***************************************************************************)
(* weighted_choice and add_rand_edge                                       *)
(*                                                                         *)
(* Every weight of a choice_dict is (nv - degs[v] - 1) / norm, so a        *)
(* weight_dict is the record [keys, num, den]: the keys in iteration       *)
(* order, the numerator of each key's weight and the common denominator.   *)
(* The draw random.random() is a rational [num, den] in [0, 1).            *)
(***************************************************************************)

\* The draws of random.random() that weighted_choice can tell apart when the
\* weights have denominator norm: 0, every cumulative-weight boundary k/norm
\* and a point strictly inside every interval between two boundaries.
Cutoffs(norm) == {[num |-> c, den |-> 2 * norm] : c \in 0 .. (2 * norm - 1)}

RECURSIVE wc_loop(_, _, _, _)
\* The for loop of weighted_choice from the k-th key on, with the running
\* threshold (a numerator over weight_dict.den): break at the first key with
\* threshold + weight >= cutoff; without a break the last key is returned.
wc_loop(weight_dict, cutoff, k, threshold) ==
    LET choice == weight_dict.keys[k]
        upto   == threshold + weight_dict.num[choice]
    IN  IF upto * cutoff.den >= cutoff.num * weight_dict.den
        THEN choice
        ELSE IF k = Len(weight_dict.keys)
             THEN choice
             ELSE wc_loop(weight_dict, cutoff, k + 1, upto)

\* weighted_choice of graph.py and graphs.py: no check of the sum.  The
\* running threshold and the comparison with cutoff are exact here; the
\* rounding of the float additions is modelled only where the code tests it,
\* in the sum check of digraph.py (FloatSumNotOne).
graph_weighted_choice(weight_dict, cutoff) ==
    wc_loop(weight_dict, cutoff, 1, 0)

\* The numerators (in key order) of the choice_dicts of at most 4 keys whose
\* weights num/den, den the sum of the numerators, do not add up to 1.0 in
\* IEEE double arithmetic when summed left to right as sum() does, e.g.
\* sum([0/6, 2/6, 3/6, 1/6]) = 0.9999999999999999.  There is none of fewer
\* than 4 keys.
FloatSumNotOne ==
    {<<0, 2, 3, 1>>, <<0, 2, 3, 2>>, <<0, 3, 2, 1>>, <<0, 3, 2, 2>>,
     <<1, 1, 3, 1>>, <<1, 1, 3, 2>>, <<1, 2, 2, 1>>, <<1, 2, 2, 2>>,
     <<1, 3, 1, 1>>, <<1, 3, 1, 2>>, <<1, 3, 3, 2>>, <<2, 0, 3, 1>>,
     <<2, 0, 3, 2>>, <<2, 1, 2, 1>>, <<2, 1, 2, 2>>, <<2, 2, 1, 1>>,
     <<2, 2, 1, 2>>, <<2, 2, 3, 2>>, <<2, 3, 0, 1>>, <<2, 3, 0, 2>>,
     <<2, 3, 1, 0>>, <<2, 3, 1, 1>>, <<2, 3, 2, 0>>, <<3, 0, 2, 1>>,
     <<3, 0, 2, 2>>, <<3, 1, 1, 1>>, <<3, 1, 1, 2>>, <<3, 1, 3, 2>>,
     <<3, 2, 0, 1>>, <<3, 2, 0, 2>>, <<3, 2, 1, 0>>, <<3, 2, 1, 1>>,
     <<3, 2, 2, 0>>, <<3, 3, 1, 2>>, <<3, 3, 3, 1>>}

\* The numerators of weight_dict in key order.
Numerators(weight_dict) ==
    [k \in 1 .. Len(weight_dict.keys) |-> weight_dict.num[weight_dict.keys[k]]]

\* weighted_choice of digraph.py: when the float sum of the weights is not 1
\* it prints an error and returns False.  False is returned here as the
\* vertex 0 with is_false set: Python's False == 0 and hash(False) ==
\* hash(0), so as a dict key, in e != v and as an argument of add_edge the
\* returned False behaves as the vertex 0.
digraph_weighted_choice(weight_dict, cutoff) ==
    IF Numerators(weight_dict) \in FloatSumNotOne
    THEN [choice |-> 0, is_false |-> TRUE]
    ELSE [choice |-> wc_loop(weight_dict, cutoff, 1, 0), is_false |-> FALSE]

\* What add_rand_edge prints on a complete graph.
CompleteMsg == "error: graph complete, no more edges to add"

\* What digraph.py's weighted_choice prints when the sum is not 1.
SumMsg == "error: dict_values should sum to 1."

\* graph.add_rand_edge with the statement self.ve_dict[w].add(v) left out.
graph_add_rand_edge_one_way(g) ==
    LET norm == g.nv * (g.nv - 1) - 2 * g.ne
    IN  IF norm # 0
        THEN LET choice_dict ==
                     [keys |-> g.verts,
                      num  |-> [v \in DOMAIN g.ve_dict |-> g.nv - g.degs[v] - 1],
                      den  |-> norm]
                 after(v) ==
                     LET cands == {e \in DOMAIN g.ve_dict :
                                      e # v /\ e \notin g.ve_dict[v]}
                     IN  IF cands = {}
                         THEN {[g |-> g, ret |-> "IndexError", out |-> ""]}
                         ELSE {[g   |-> [g EXCEPT !.ve_dict[v] = @ \cup {w},
                                                  !.ne = @ + 1,
                                                  !.degs[v] = @ + 1,
                                                  !.degs[w] = @ + 1],
                                 ret |-> "None",
                                 out |-> ""] : w \in cands}
             IN  UNION {after(graph_weighted_choice(choice_dict, cutoff)) :
                           cutoff \in Cutoffs(norm)}
        ELSE {[g |-> g, ret |-> "None", out |-> CompleteMsg]}

\* graph.add_rand_edge(): the outcomes [g, ret, out] over every draw of
\* random.random() and random.choice.  random.choice of an empty list raises
\* IndexError before anything is changed.  The method has no return
\* statement: it returns None on every path that does not raise.
graph_add_rand_edge(g) ==
    LET norm == g.nv * (g.nv - 1) - 2 * g.ne
    IN  IF norm # 0
        THEN LET choice_dict ==
                     [keys |-> g.verts,
                      num  |-> [v \in DOMAIN g.ve_dict |-> g.nv - g.degs[v] - 1],
                      den  |-> norm]
                 after(v) ==
                     LET cands == {e \in DOMAIN g.ve_dict :
                                      e # v /\ e \notin g.ve_dict[v]}
                     IN  IF cands = {}
                         THEN {[g |-> g, ret |-> "IndexError", out |-> ""]}
                         ELSE {[g   |-> [g EXCEPT !.ve_dict[v] = @ \cup {w},
                                                  !.ve_dict[w] = @ \cup {v},
                                                  !.ne = @ + 1,
                                                  !.degs[v] = @ + 1,
                                                  !.degs[w] = @ + 1],
                                 ret |-> "None",
                                 out |-> ""] : w \in cands}
             IN  UNION {after(graph_weighted_choice(choice_dict, cutoff)) :
                           cutoff \in Cutoffs(norm)}
        ELSE {[g |-> g, ret |-> "None", out |-> CompleteMsg]}

\* digraph.add_rand_edge(): as above, with the sum check of weighted_choice
\* and the edge added through add_edge.
digraph_add_rand_edge(g) ==
    LET norm == g.nv * (g.nv - 1) - g.ne
    IN  IF norm # 0
        THEN LET choice_dict ==
                     [keys |-> g.verts,
                      num  |-> [i \in DOMAIN g.ve_dict |-> g.nv - g.degs[i] - 1],
                      den  |-> norm]
                 after(r) ==
                     LET v     == r.choice
                         said  == IF r.is_false THEN SumMsg ELSE ""
                         cands == {e \in DOMAIN g.ve_dict :
                                      e # v /\ e \notin g.ve_dict[v]}
                     IN  IF cands = {}
                         THEN {[g |-> g, ret |-> "IndexError", out |-> said]}
                         ELSE {[g   |-> digraph_add_edge(g, v, w).g,
                                 ret |-> "None",
                                 out |-> said] : w \in cands}
             IN  UNION {after(digraph_weighted_choice(choice_dict, cutoff)) :
                           cutoff \in Cutoffs(norm)}
        ELSE {[g |-> g, ret |-> "None", out |-> CompleteMsg]}

(***************************************************************************)
(* The state: one object G under test, the result of the last completed    *)
(* call, and the locals of the traversal in progress.                      *)
(***************************************************************************)
VARIABLES
    G,          \* the graph or digraph object under test
    res,        \* the call in progress ("running") or else the last call
    pc,         \* "idle", or the traversal in progress
    visited,    \* the vertices v with visited[v] = True
    stack,      \* the active explore calls, innermost last
    idx,        \* position of the outer "for v in G" loop in G.verts
    counter,    \* dfs: the counter of the outer loop
    pre_post,   \* dfs: the pre_post dict
    sp_forest,  \* spanning_forest: the forest being built
    comps,      \* connected_components: the list comps
    this_comp   \* connected_components: the list this_comp

vars == <<G, res, pc, visited, stack, idx, counter, pre_post, sp_forest,
          comps, this_comp>>

locals == <<visited, stack, idx, counter, pre_post, sp_forest, comps,
            this_comp>>

\* range(n)
VertSeq(n) == [k \in 1 .. n |-> k - 1]

\* No object: the value of a local that holds no graph.
NoGraph == graph_init(<< >>, EmptyDict)

\* The record of a call: the function or method, the kind of value returned
\* (or the exception raised, or "running"), the text printed, the returned
\* dict or graphs, and the pairs <<k, v>> for which the neighbour set of v in
\* the k-th returned graph is the same set object as G.ve_dict[v].
Call(op, ret, out) ==
    [op |-> op, ret |-> ret, out |-> out, pre_post |-> << >>,
     graphs |-> << >>, shared |-> {}]

\* The locals of a traversal when none is in progress.
LocalsIdle ==
    /\ visited = {}
    /\ stack = << >>
    /\ idx = 0
    /\ counter = 0
    /\ pre_post = << >>
    /\ sp_forest = NoGraph
    /\ comps = << >>
    /\ this_comp = << >>

\* graph(range(n)) or digraph(range(n)): construction with no seed edges.
Init ==
    /\ \E n \in 0 .. MaxNV :
          G \in {graph_init(VertSeq(n), EmptyDict),
                 digraph_init(VertSeq(n), EmptyDict)}
    /\ res = Call("init", "None", "")
    /\ pc = "idle"
    /\ LocalsIdle

\* G.add_edge(i, j) on a graph
GraphAddEdge(i, j) ==
    /\ pc = "idle"
    /\ G.cls = "graph"
    /\ LET r == graph_add_edge(G, i, j)
       IN  /\ G' = r.g
           /\ res' = Call("add_edge", r.ret, "")
    /\ UNCHANGED <<pc, locals>>

\* G.add_edge(v, w) on a digraph
DigraphAddEdge(v, w) ==
    /\ pc = "idle"
    /\ G.cls = "digraph"
    /\ LET r == digraph_add_edge(G, v, w)
       IN  /\ G' = r.g
           /\ res' = Call("add_edge", r.ret, "")
    /\ UNCHANGED <<pc, locals>>

\* G.add_rand_edge() on a graph
GraphAddRandEdge ==
    /\ pc = "idle"
    /\ G.cls = "graph"
    /\ \E o \in graph_add_rand_edge(G) :
          /\ G' = o.g
          /\ res' = Call("add_rand_edge", o.ret, o.out)
    /\ UNCHANGED <<pc, locals>>

\* G.add_rand_edge() on a digraph
DigraphAddRandEdge ==
    /\ pc = "idle"
    /\ G.cls = "digraph"
    /\ \E o \in digraph_add_rand_edge(G) :
          /\ G' = o.g
          /\ res' = Call("add_rand_edge", o.ret, o.out)
    /\ UNCHANGED <<pc, locals>>

\* G.is_complete() on a graph
GraphIsComplete ==
    /\ pc = "idle"
    /\ G.cls = "graph"
    /\ res' = Call("is_complete",
                   IF graph_is_complete(G) THEN "True" ELSE "False", "")
    /\ UNCHANGED <<G, pc, locals>>

\* G.is_complete() on a digraph
DigraphIsComplete ==
    /\ pc = "idle"
    /\ G.cls = "digraph"
    /\ res' = Call("is_complete",
                   IF digraph_is_complete(G) THEN "True" ELSE "False", "")
    /\ UNCHANGED <<G, pc, locals>>

\* A set of small ints as the sequence a Python set of them iterates in:
\* increasing order.
RECURSIVE SetToSeq(_)
SetToSeq(S) ==
    IF S = {} THEN << >>
    ELSE LET m == CHOOSE x \in S : \A y \in S : x <= y
         IN  <<m>> \o SetToSeq(S \ {m})

\* G.subgraph(some_verts) on a graph, some_verts a set of vertices of G
GraphSubgraph(some_verts) ==
    /\ pc = "idle"
    /\ G.cls = "graph"
    /\ res' = [Call("subgraph", "graph", "")
                 EXCEPT !.graphs = <<graph_subgraph(G, SetToSeq(some_verts))>>,
                        !.shared = {<<1, v>> : v \in
                           graph_subgraph_shared(G, SetToSeq(some_verts))}]
    /\ UNCHANGED <<G, pc, locals>>

\* G.subgraph(some_verts) on a digraph: some_edges is built, then the name
\* graph is looked up; digraph.py neither defines nor imports it, so the
\* return statement raises NameError.
DigraphSubgraph(some_verts) ==
    /\ pc = "idle"
    /\ G.cls = "digraph"
    /\ res' = Call("subgraph", "NameError", "")
    /\ UNCHANGED <<G, pc, locals>>

\* G.reverse() on a digraph
DigraphReverse ==
    /\ pc = "idle"
    /\ G.cls = "digraph"
    /\ res' = [Call("reverse", "digraph", "")
                 EXCEPT !.graphs = <<digraph_reverse(G)>>,
                        !.shared = {<<1, v>> : v \in
                                       init_keeps(G.verts, EmptyDict)}]
    /\ UNCHANGED <<G, pc, locals>>

\* Gprime.reverse() on the digraph Gprime that G.reverse() returned
DigraphReverseAgain ==
    /\ pc = "idle"
    /\ res.op = "reverse"
    /\ res' = [Call("reverse.reverse", "digraph", "")
                 EXCEPT !.graphs = <<digraph_reverse(res.graphs[1])>>]
    /\ UNCHANGED <<G, pc, locals>>

\* connected_components(G) of graphs.py: the body is pass, it returns None.
graphs_connected_components ==
    /\ pc = "idle"
    /\ G.cls = "graph"
    /\ res' = Call("graphs.connected_components", "None", "")
    /\ UNCHANGED <<G, pc, locals>>

(***************************************************************************)
(* The traversals.  A call of the nested function explore is a frame of    *)
(* stack: [v, iter], iter the members of G[v] that "for u in G[v]" has     *)
(* still to yield (a set iterates in no specified order, so any of them    *)
(* may come next).  A traversal runs from its call to its return with no   *)
(* other call in between.                                                  *)
(***************************************************************************)

Top == stack[Len(stack)]

Pop == SubSeq(stack, 1, Len(stack) - 1)

\* The stack with u taken from the iterator of the innermost frame.
Yield(u) == [stack EXCEPT ![Len(stack)].iter = @ \ {u}]

\* The locals a traversal does not use keep their idle values.
ResetLocals ==
    /\ visited' = {}
    /\ stack' = << >>
    /\ idx' = 0
    /\ counter' = 0
    /\ pre_post' = << >>
    /\ sp_forest' = NoGraph
    /\ comps' = << >>
    /\ this_comp' = << >>

(* dfs(G): graph.py 136-164, digraph.py 126-154 and, as the module-level   *)
(* functions explore and dfs, graphs.py 132-158.  explore(v, counter) has  *)
(* its own counter, passed in and returned: a dfs frame is                 *)
(* [v, iter, counter].                                                     *)

\* dfs(G) is called: visited, pre_post and counter are set up.
dfs_call ==
    /\ pc = "idle"
    /\ pc' = "dfs"
    /\ visited' = {}
    /\ pre_post' = [v \in DOMAIN G.ve_dict |-> << >>]
    /\ counter' = 0
    /\ idx' = 1
    /\ res' = Call("dfs", "running", "")
    /\ UNCHANGED <<G, stack, sp_forest, comps, this_comp>>

\* One round of "for v in G": explore(v, counter) is entered when v is not
\* visited (its first three statements run).
dfs_for_v ==
    /\ pc = "dfs"
    /\ stack = << >>
    /\ idx <= Len(G.verts)
    /\ LET v == G.verts[idx]
       IN  IF v \notin visited
           THEN /\ visited' = visited \cup {v}
                /\ pre_post' = [pre_post EXCEPT ![v] = Append(@, counter)]
                /\ stack' = <<[v |-> v, iter |-> G.ve_dict[v],
                               counter |-> counter + 1]>>
           ELSE UNCHANGED <<visited, pre_post, stack>>
    /\ idx' = idx + 1
    /\ UNCHANGED <<G, res, pc, counter, sp_forest, comps, this_comp>>

\* dfs_for_u with the statement counter += 1 that follows
\* pre_post[v].append(counter) left out of explore.
dfs_for_u_no_increment ==
    /\ pc = "dfs"
    /\ stack # << >>
    /\ \E u \in Top.iter :
          IF u \notin visited
          THEN /\ visited' = visited \cup {u}
               /\ pre_post' = [pre_post EXCEPT ![u] = Append(@, Top.counter)]
               /\ stack' = Append(Yield(u),
                                  [v |-> u, iter |-> G.ve_dict[u],
                                   counter |-> Top.counter])
          ELSE /\ stack' = Yield(u)
               /\ UNCHANGED <<visited, pre_post>>
    /\ UNCHANGED <<G, res, pc, idx, counter, sp_forest, comps, this_comp>>

\* One round of "for u in G[v]" in the innermost explore: explore(u, counter)
\* is entered when u is not visited.
dfs_for_u ==
    /\ pc = "dfs"
    /\ stack # << >>
    /\ \E u \in Top.iter :
          IF u \notin visited
          THEN /\ visited' = visited \cup {u}
               /\ pre_post' = [pre_post EXCEPT ![u] = Append(@, Top.counter)]
               /\ stack' = Append(Yield(u),
                                  [v |-> u, iter |-> G.ve_dict[u],
                                   counter |-> Top.counter + 1])
          ELSE /\ stack' = Yield(u)
               /\ UNCHANGED <<visited, pre_post>>
    /\ UNCHANGED <<G, res, pc, idx, counter, sp_forest, comps, this_comp>>

\* dfs_explore_return with the returned counter dropped by the caller:
\* explore(u, counter) for counter = explore(u, counter).
dfs_explore_return_dropped ==
    /\ pc = "dfs"
    /\ stack # << >>
    /\ Top.iter = {}
    /\ pre_post' = [pre_post EXCEPT ![Top.v] = Append(@, Top.counter)]
    /\ stack' = Pop
    /\ UNCHANGED <<G, res, pc, visited, idx, counter, sp_forest, comps,
                   this_comp>>

\* The innermost explore has exhausted its loop: it appends counter to
\* pre_post[v] and returns counter + 1, which its caller assigns to its own
\* counter.
dfs_explore_return ==
    /\ pc = "dfs"
    /\ stack # << >>
    /\ Top.iter = {}
    /\ pre_post' = [pre_post EXCEPT ![Top.v] = Append(@, Top.counter)]
    /\ IF Len(stack) > 1
       THEN /\ stack' = [Pop EXCEPT ![Len(stack) - 1].counter = Top.counter + 1]
            /\ UNCHANGED counter
       ELSE /\ stack' = << >>
            /\ counter' = Top.counter + 1
    /\ UNCHANGED <<G, res, pc, visited, idx, sp_forest, comps, this_comp>>

\* The outer loop is exhausted: dfs returns pre_post.
dfs_return ==
    /\ pc = "dfs"
    /\ stack = << >>
    /\ idx > Len(G.verts)
    /\ res' = [Call("dfs", "dict", "") EXCEPT !.pre_post = pre_post]
    /\ pc' = "idle"
    /\ ResetLocals
    /\ UNCHANGED G

(* spanning_forest(G): graph.py 117-134 and, with sf_explore a module-level *)
(* function, graphs.py 114-130.                                             *)

\* spanning_forest(G) is called: sp_forest = graph(G), a graph over the
\* vertices of G with no seed edges.
sf_call ==
    /\ pc = "idle"
    /\ G.cls = "graph"
    /\ pc' = "spanning_forest"
    /\ visited' = {}
    /\ sp_forest' = graph_init(G.verts, EmptyDict)
    /\ idx' = 1
    /\ res' = Call("spanning_forest", "running", "")
    /\ UNCHANGED <<G, stack, counter, pre_post, comps, this_comp>>

\* One round of "for v in G": explore(v) when v is not visited.
sf_for_v ==
    /\ pc = "spanning_forest"
    /\ stack = << >>
    /\ idx <= Len(G.verts)
    /\ LET v == G.verts[idx]
       IN  IF v \notin visited
           THEN /\ visited' = visited \cup {v}
                /\ stack' = <<[v |-> v, iter |-> G.ve_dict[v]]>>
           ELSE UNCHANGED <<visited, stack>>
    /\ idx' = idx + 1
    /\ UNCHANGED <<G, res, pc, counter, pre_post, sp_forest, comps, this_comp>>

\* sf_for_u with sp_forest.add_edge(u, v) moved out of "if not visited[u]".
sf_for_u_every_edge ==
    /\ pc = "spanning_forest"
    /\ stack # << >>
    /\ \E u \in Top.iter :
          /\ sp_forest' = graph_add_edge(sp_forest, u, Top.v).g
          /\ IF u \notin visited
             THEN /\ visited' = visited \cup {u}
                  /\ stack' = Append(Yield(u),
                                     [v |-> u, iter |-> G.ve_dict[u]])
             ELSE /\ stack' = Yield(u)
                  /\ UNCHANGED visited
    /\ UNCHANGED <<G, res, pc, idx, counter, pre_post, comps, this_comp>>

\* One round of "for u in G[v]": sp_forest.add_edge(u, v) and explore(u)
\* when u is not visited.
sf_for_u ==
    /\ pc = "spanning_forest"
    /\ stack # << >>
    /\ \E u \in Top.iter :
          IF u \notin visited
          THEN /\ sp_forest' = graph_add_edge(sp_forest, u, Top.v).g
               /\ visited' = visited \cup {u}
               /\ stack' = Append(Yield(u), [v |-> u, iter |-> G.ve_dict[u]])
          ELSE /\ stack' = Yield(u)
               /\ UNCHANGED <<visited, sp_forest>>
    /\ UNCHANGED <<G, res, pc, idx, counter, pre_post, comps, this_comp>>

\* The innermost explore has exhausted its loop and returns.
sf_explore_return ==
    /\ pc = "spanning_forest"
    /\ stack # << >>
    /\ Top.iter = {}
    /\ stack' = Pop
    /\ UNCHANGED <<G, res, pc, visited, idx, counter, pre_post, sp_forest,
                   comps, this_comp>>

\* The outer loop is exhausted: spanning_forest returns sp_forest.
sf_return ==
    /\ pc = "spanning_forest"
    /\ stack = << >>
    /\ idx > Len(G.verts)
    /\ res' = [Call("spanning_forest", "graph", "")
                 EXCEPT !.graphs = <<sp_forest>>,
                        !.shared = {<<1, v>> : v \in
                                       init_keeps(G.verts, EmptyDict)}]
    /\ pc' = "idle"
    /\ ResetLocals
    /\ UNCHANGED G

(* connected_components(G): graph.py 166-188.                               *)

\* connected_components(G) is called.
cc_call ==
    /\ pc = "idle"
    /\ G.cls = "graph"
    /\ pc' = "connected_components"
    /\ visited' = {}
    /\ comps' = << >>
    /\ this_comp' = << >>
    /\ idx' = 1
    /\ res' = Call("connected_components", "running", "")
    /\ UNCHANGED <<G, stack, counter, pre_post, sp_forest>>

\* One round of "for v in G": explore(v) when v is not visited.
cc_for_v ==
    /\ pc = "connected_components"
    /\ stack = << >>
    /\ idx <= Len(G.verts)
    /\ LET v == G.verts[idx]
       IN  IF v \notin visited
           THEN /\ this_comp' = Append(this_comp, v)
                /\ visited' = visited \cup {v}
                /\ stack' = <<[v |-> v, iter |-> G.ve_dict[v]]>>
           ELSE UNCHANGED <<this_comp, visited, stack>>
    /\ idx' = idx + 1
    /\ UNCHANGED <<G, res, pc, counter, pre_post, sp_forest, comps>>

\* One round of "for w in G[v]": explore(w) when w is not visited.
cc_for_w ==
    /\ pc = "connected_components"
    /\ stack # << >>
    /\ \E w \in Top.iter :
          IF w \notin visited
          THEN /\ this_comp' = Append(this_comp, w)
               /\ visited' = visited \cup {w}
               /\ stack' = Append(Yield(w), [v |-> w, iter |-> G.ve_dict[w]])
          ELSE /\ stack' = Yield(w)
               /\ UNCHANGED <<this_comp, visited>>
    /\ UNCHANGED <<G, res, pc, idx, counter, pre_post, sp_forest, comps>>

\* The innermost explore returns; when it is the one the outer loop called,
\* comps.append(G.subgraph(this_comp)) and this_comp = [] follow.
cc_explore_return ==
    /\ pc = "connected_components"
    /\ stack # << >>
    /\ Top.iter = {}
    /\ stack' = Pop
    /\ IF Len(stack) = 1
       THEN /\ comps' = Append(comps, graph_subgraph(G, this_comp))
            /\ this_comp' = << >>
       ELSE UNCHANGED <<comps, this_comp>>
    /\ UNCHANGED <<G, res, pc, visited, idx, counter, pre_post, sp_forest>>

\* The outer loop is exhausted: connected_components returns comps.
cc_return ==
    /\ pc = "connected_components"
    /\ stack = << >>
    /\ idx > Len(G.verts)
    /\ res' = [Call("connected_components", "list", "")
                 EXCEPT !.graphs = comps,
                        !.shared = UNION {{<<k, v>> : v \in
                                  graph_subgraph_shared(G, comps[k].verts)} :
                              k \in 1 .. Len(comps)}]
    /\ pc' = "idle"
    /\ ResetLocals
    /\ UNCHANGED G

(***************************************************************************)
(* Calls on a graph that G.subgraph, G.reverse, spanning_forest(G) or      *)
(* connected_components(G) returned (the k-th of res.graphs), and calls on *)
(* G while the caller still holds the returned graphs.  A set object that  *)
(* two instances share is changed in both by a call on either.             *)
(***************************************************************************)

\* The instance g after a call on another instance has left that one as by:
\* the sets of the vertices in S are the objects they share.
Written(g, by, S) ==
    [g EXCEPT !.ve_dict = [v \in DOMAIN g.ve_dict |->
                             IF v \in S THEN by.ve_dict[v]
                             ELSE g.ve_dict[v]]]

\* The vertices whose set the k-th returned graph shares with G.
SharedWith(k) == {v \in DOMAIN G.ve_dict : <<k, v>> \in res.shared}

\* The returned graphs after a call on G has left it as g.
GraphsAfter(g) ==
    [k \in 1 .. Len(res.graphs) |-> Written(res.graphs[k], g, SharedWith(k))]

\* res.graphs[k].add_edge(i, j)
DerivedAddEdge(k, i, j) ==
    /\ pc = "idle"
    /\ k \in 1 .. Len(res.graphs)
    /\ LET d == res.graphs[k]
           r == IF d.cls = "graph" THEN graph_add_edge(d, i, j)
                ELSE digraph_add_edge(d, i, j)
       IN  /\ res' = [res EXCEPT !.op = "derived.add_edge", !.ret = r.ret,
                                 !.out = "", !.graphs[k] = r.g]
           /\ G' = Written(G, r.g, SharedWith(k))
    /\ UNCHANGED <<pc, locals>>

\* res.graphs[k].add_rand_edge()
DerivedAddRandEdge(k) ==
    /\ pc = "idle"
    /\ k \in 1 .. Len(res.graphs)
    /\ LET d == res.graphs[k]
       IN  \E o \in IF d.cls = "graph" THEN graph_add_rand_edge(d)
                    ELSE digraph_add_rand_edge(d) :
              /\ res' = [res EXCEPT !.op = "derived.add_rand_edge",
                                    !.ret = o.ret, !.out = o.out,
                                    !.graphs[k] = o.g]
              /\ G' = Written(G, o.g, SharedWith(k))
    /\ UNCHANGED <<pc, locals>>

\* G.add_edge(i, j) while the caller holds the graphs derived from G
SourceAddEdge(i, j) ==
    /\ pc = "idle"
    /\ res.graphs # << >>
    /\ LET r == IF G.cls = "graph" THEN graph_add_edge(G, i, j)
                ELSE digraph_add_edge(G, i, j)
       IN  /\ G' = r.g
           /\ res' = [res EXCEPT !.op = "source.add_edge", !.ret = r.ret,
                                 !.out = "", !.graphs = GraphsAfter(r.g)]
    /\ UNCHANGED <<pc, locals>>

\* G.add_rand_edge() while the caller holds the graphs derived from G
SourceAddRandEdge ==
    /\ pc = "idle"
    /\ res.graphs # << >>
    /\ \E o \in IF G.cls = "graph" THEN graph_add_rand_edge(G)
                 ELSE digraph_add_rand_edge(G) :
          /\ G' = o.g
          /\ res' = [res EXCEPT !.op = "source.add_rand_edge", !.ret = o.ret,
                                !.out = o.out, !.graphs = GraphsAfter(o.g)]
    /\ UNCHANGED <<pc, locals>>

Next ==
    \/ \E i, j \in Labels : GraphAddEdge(i, j)
    \/ \E v, w \in Labels : DigraphAddEdge(v, w)
    \/ GraphAddRandEdge
    \/ DigraphAddRandEdge
    \/ GraphIsComplete
    \/ DigraphIsComplete
    \/ \E some_verts \in SUBSET DOMAIN G.ve_dict : GraphSubgraph(some_verts)
    \/ \E some_verts \in SUBSET DOMAIN G.ve_dict : DigraphSubgraph(some_verts)
    \/ DigraphReverse
    \/ DigraphReverseAgain
    \/ graphs_connected_components
    \/ dfs_call
    \/ dfs_for_v
    \/ dfs_for_u
    \/ dfs_explore_return
    \/ dfs_return
    \/ sf_call
    \/ sf_for_v
    \/ sf_for_u
    \/ sf_explore_return
    \/ sf_return
    \/ cc_call
    \/ cc_for_v
    \/ cc_for_w
    \/ cc_explore_return
    \/ cc_return

Spec == Init /\ [][Next]_vars

\* The seed edge mappings a caller may pass: dicts from some labels to sets of
\* labels.
SeedDicts == UNION {[K -> SUBSET (0 .. MaxSV)] : K \in SUBSET (0 .. MaxSV)}

\* G = graph(range(n), edge_dict).  The mappings drawn are those for which ne
\* is a whole number; an odd total of the neighbour-set sizes makes ne a
\* float k + 0.5.
GraphNew(n, edge_dict) ==
    /\ pc = "idle"
    /\ SumLen([v \in Range(VertSeq(n)) |-> DictGet(edge_dict, v, {})],
              Range(VertSeq(n))) % 2 = 0
    /\ G' = graph_init(VertSeq(n), edge_dict)
    /\ res' = Call("init", "None", "")
    /\ UNCHANGED <<pc, locals>>

\* G = digraph(range(n), edge_dict)
DigraphNew(n, edge_dict) ==
    /\ pc = "idle"
    /\ G' = digraph_init(VertSeq(n), edge_dict)
    /\ res' = Call("init", "None", "")
    /\ UNCHANGED <<pc, locals>>

\* Construction with a seed edge mapping, from graph([]).
InitSeed ==
    /\ G = graph_init(<< >>, EmptyDict)
    /\ res = Call("init", "None", "")
    /\ pc = "idle"
    /\ LocalsIdle

NextSeed ==
    \/ \E n \in 0 .. MaxSV : \E edge_dict \in SeedDicts : GraphNew(n, edge_dict)
    \/ \E n \in 0 .. MaxSV : \E edge_dict \in SeedDicts : DigraphNew(n, edge_dict)

SpecSeed == InitSeed /\ [][NextSeed]_vars

\* G[v].add(x): __getitem__ returns self.ve_dict[v], the set object itself,
\* and the caller adds x to it.
GetItemAdd(v, x) ==
    /\ pc = "idle"
    /\ v \in DOMAIN G.ve_dict
    /\ G' = [G EXCEPT !.ve_dict[v] = @ \cup {x}]
    /\ res' = Call("getitem.add", "None", "")
    /\ UNCHANGED <<pc, locals>>

\* G[v].discard(x)
GetItemDiscard(v, x) ==
    /\ pc = "idle"
    /\ v \in DOMAIN G.ve_dict
    /\ G' = [G EXCEPT !.ve_dict[v] = @ \ {x}]
    /\ res' = Call("getitem.discard", "None", "")
    /\ UNCHANGED <<pc, locals>>

\* graph(range(n)) or digraph(range(n)) for n in 0 .. MaxGV.
InitView ==
    /\ \E n \in 0 .. MaxGV :
          G \in {graph_init(VertSeq(n), EmptyDict),
                 digraph_init(VertSeq(n), EmptyDict)}
    /\ res = Call("init", "None", "")
    /\ pc = "idle"
    /\ LocalsIdle

\* add_edge, and changes of the sets that indexing returns.  An edge that
\* the caller removed can be added again, which lets ne grow without end:
\* add_edge is called while ne is below the largest edge count of nv vertices.
NextView ==
    \/ \E i, j \in 0 .. MaxGV :
          2 * G.ne < G.nv * (G.nv - 1) /\ GraphAddEdge(i, j)
    \/ \E v, w \in 0 .. MaxGV :
          G.ne < G.nv * (G.nv - 1) /\ DigraphAddEdge(v, w)
    \/ \E v, x \in 0 .. MaxGV : GetItemAdd(v, x)
    \/ \E v, x \in 0 .. MaxGV : GetItemDiscard(v, x)

SpecView == InitView /\ [][NextView]_vars

\* graph(range(n)) or digraph(range(n)) for n in 0 .. MaxRV.
InitRand ==
    /\ \E n \in 0 .. MaxRV :
          G \in {graph_init(VertSeq(n), EmptyDict),
                 digraph_init(VertSeq(n), EmptyDict)}
    /\ res = Call("init", "None", "")
    /\ pc = "idle"
    /\ LocalsIdle

\* add_edge and add_rand_edge only.
NextRand ==
    \/ \E i, j \in 0 .. MaxRV : GraphAddEdge(i, j)
    \/ \E v, w \in 0 .. MaxRV : DigraphAddEdge(v, w)
    \/ GraphAddRandEdge
    \/ DigraphAddRandEdge

SpecRand == InitRand /\ [][NextRand]_vars

\* graph(range(n)) or digraph(range(n)) for n in 0 .. MaxDV.
InitDerive ==
    /\ \E n \in 0 .. MaxDV :
          G \in {graph_init(VertSeq(n), EmptyDict),
                 digraph_init(VertSeq(n), EmptyDict)}
    /\ res = Call("init", "None", "")
    /\ pc = "idle"
    /\ LocalsIdle

\* The calls of Next, and the calls on the derived graphs and on their source.
NextDerive ==
    \/ Next
    \/ \E i, j \in 0 .. MaxDV : \E k \in 1 .. MaxDV : DerivedAddEdge(k, i, j)
    \/ \E k \in 1 .. MaxDV : DerivedAddRandEdge(k)
    \/ \E i, j \in 0 .. MaxDV : SourceAddEdge(i, j)
    \/ SourceAddRandEdge

SpecDerive == InitDerive /\ [][NextDerive]_vars

(***************************************************************************)
(* Properties                                                              *)
(***************************************************************************)

Keys(g) == DOMAIN g.ve_dict

RECURSIVE SumVals(_, _)
\* The sum of d[k] over the keys k in S.
SumVals(d, S) ==
    IF S = {} THEN 0
    ELSE LET k == CHOOSE x \in S : TRUE
         IN  d[k] + SumVals(d, S \ {k})

\* C1: after any sequence of add_edge and add_rand_edge calls on an object
\* built with no seed edges, every counter degs[v] (out_deg[v]) is the size
\* of v's neighbour set, and ne is half the sum of the degrees (graph) or
\* the sum of the out-degrees (digraph).
C1_CountersAgree ==
    /\ \A v \in Keys(G) : G.degs[v] = Cardinality(G.ve_dict[v])
    /\ G.cls = "graph" => 2 * G.ne = SumVals(G.degs, Keys(G))
    /\ G.cls = "digraph" => G.ne = SumVals(G.degs, Keys(G))

\* A random insertion has just succeeded on a graph that now has two edges
\* or more.
C1_Witness ==
    /\ res.op = "add_rand_edge"
    /\ res.ret = "None"
    /\ res.out = ""
    /\ G.ne >= 2

\* C2: after any sequence of add_edge and add_rand_edge calls no vertex is
\* its own neighbour, every neighbour is a vertex and, in a graph, w is a
\* neighbour of v iff v is a neighbour of w.
C2_AdjacencyWellFormed ==
    /\ \A v \in Keys(G) : v \notin G.ve_dict[v]
    /\ \A v \in Keys(G) : G.ve_dict[v] \subseteq Keys(G)
    /\ G.cls = "graph" =>
          \A v, w \in Keys(G) : w \in G.ve_dict[v] <=> v \in G.ve_dict[w]

\* A graph holding a path of three vertices, the last call an add_edge that
\* was refused.
C2_Witness ==
    /\ G.cls = "graph"
    /\ res.op = "add_edge"
    /\ res.ret = "False"
    /\ \E v \in Keys(G) : Cardinality(G.ve_dict[v]) = 2

\* add_edge(i, j) must fail: a self-loop, an endpoint that is no vertex, or
\* an edge that is there already (in a graph, in either orientation).
EdgeRejected(g, i, j) ==
    \/ i = j
    \/ i \notin Keys(g)
    \/ j \notin Keys(g)
    \/ /\ i \in Keys(g)
       /\ j \in Keys(g)
       /\ \/ j \in g.ve_dict[i]
          \/ g.cls = "graph" /\ i \in g.ve_dict[j]

\* C3: an add_edge(i, j) call that must fail returns False and leaves the
\* object as it was; after an add_edge(i, j) that returned True the same
\* call (and in a graph add_edge(j, i)) is one that must fail.
\* Stated on the steps that are add_edge calls: the call returns True or
\* False, a call that returns False changes nothing, and a call that
\* returns True is add_edge(i, j) only for i, j that need not fail before
\* the call and must fail after it.
C3_AddEdgeFails ==
    [][(pc = "idle" /\ res'.op = "add_edge") =>
          /\ res'.ret \in {"True", "False"}
          /\ res'.ret = "False" => G' = G
          /\ res'.ret = "True" =>
                \A i, j \in Labels :
                   (GraphAddEdge(i, j) \/ DigraphAddEdge(i, j)) =>
                      /\ ~EdgeRejected(G, i, j)
                      /\ EdgeRejected(G', i, j)
                      /\ G.cls = "graph" => EdgeRejected(G', j, i)]_vars

\* An add_edge call has just been refused on an object that holds an edge.
C3_Witness ==
    /\ res.op = "add_edge"
    /\ res.ret = "False"
    /\ G.ne >= 1

\* The object is complete: add_rand_edge computes norm = 0.
Complete(g) ==
    IF g.cls = "graph" THEN graph_is_complete(g) ELSE digraph_is_complete(g)

\* C4: add_rand_edge on a complete object leaves it unchanged and returns a
\* value that differs from the value a call that inserted an edge returned
\* (stated for the call that follows a successful insertion).
C4_CompleteIsReported ==
    [][((GraphAddRandEdge \/ DigraphAddRandEdge) /\ Complete(G)) =>
          /\ G' = G
          /\ (res.op = "add_rand_edge" /\ res.out = "" /\ res.ret # "IndexError")
                => res'.ret # res.ret]_vars

\* The intervals [pre, post] of u and v in the dict pp do not meet.
Disjoint(pp, u, v) == pp[u][2] < pp[v][1] \/ pp[v][2] < pp[u][1]

\* The interval of v lies strictly inside the interval of u.
Inside(pp, u, v) == pp[u][1] < pp[v][1] /\ pp[v][2] < pp[u][2]

\* C5: dfs(G) gives every vertex exactly one pair [pre, post] with
\* pre < post, and the intervals of two distinct vertices are disjoint or
\* one lies strictly inside the other, whatever order the neighbour sets
\* iterate in.
C5_DfsIntervals ==
    (res.op = "dfs" /\ res.ret = "dict") =>
       LET pp == res.pre_post
       IN  /\ DOMAIN pp = Keys(G)
           /\ \A v \in Keys(G) : Len(pp[v]) = 2 /\ pp[v][1] < pp[v][2]
           /\ \A u, v \in Keys(G) :
                 u # v => \/ Disjoint(pp, u, v)
                          \/ Inside(pp, u, v)
                          \/ Inside(pp, v, u)

\* dfs has returned on an object with edges where one interval lies inside
\* another and two intervals are disjoint.
C5_Witness ==
    /\ res.op = "dfs"
    /\ res.ret = "dict"
    /\ G.ne >= 1
    /\ \E u, v \in Keys(G) : u # v /\ Inside(res.pre_post, u, v)
    /\ \E u, v \in Keys(G) : u # v /\ Disjoint(res.pre_post, u, v)

RECURSIVE Closure(_, _)
\* The vertices joined to a vertex of S by a path along adj.
Closure(adj, S) ==
    LET T == S \cup UNION {adj[x] : x \in S}
    IN  IF T = S THEN S ELSE Closure(adj, T)

\* The connected components of g, as vertex sets.
ComponentsOf(g) == {Closure(g.ve_dict, {v}) : v \in Keys(g)}

\* The list cs holds the connected components of g: the vertex sets of its
\* entries are components of g, pairwise disjoint, their union is the
\* vertex set of g, and every entry is the induced subgraph on its vertices.
ComponentList(g, cs) ==
    /\ \A k \in 1 .. Len(cs) : Keys(cs[k]) \in ComponentsOf(g)
    /\ \A k, l \in 1 .. Len(cs) : k # l => Keys(cs[k]) \cap Keys(cs[l]) = {}
    /\ UNION {Keys(cs[k]) : k \in 1 .. Len(cs)} = Keys(g)
    /\ \A k \in 1 .. Len(cs) : \A v \in Keys(cs[k]) :
          cs[k].ve_dict[v] = g.ve_dict[v] \cap Keys(cs[k])

\* connected_components of graph.py returns the components of G.
GraphPyComponents ==
    (res.op = "connected_components" /\ res.ret # "running") =>
       (res.ret = "list" /\ ComponentList(G, res.graphs))

\* C6: connected_components(G) returns a list of graphs that are the
\* connected components of G, each the induced subgraph on its vertex set
\* (graph.py's function and graphs.py's).
C6_Components ==
    /\ GraphPyComponents
    /\ res.op = "graphs.connected_components" =>
          (res.ret = "list" /\ ComponentList(G, res.graphs))

\* u has no neighbour w that it still reaches with the edge u-w removed.
Acyclic(g) ==
    \A u \in Keys(g) : \A w \in g.ve_dict[u] :
       w \notin Closure([x \in Keys(g) |->
                           IF x = u THEN g.ve_dict[x] \ {w}
                           ELSE IF x = w THEN g.ve_dict[x] \ {u}
                           ELSE g.ve_dict[x]],
                        {u})

\* C7: spanning_forest(G) returns a graph on the vertices of G, all of whose
\* edges are edges of G, with no cycle and with nv minus the number of
\* connected components of G edges (as counted by ne and as held in its
\* adjacency); no step of the call changes G.
C7_SpanningForest ==
    /\ [](res.op = "spanning_forest" /\ res.ret = "graph" =>
            LET f == res.graphs[1]
            IN  /\ Keys(f) = Keys(G)
                /\ \A v \in Keys(f) : f.ve_dict[v] \subseteq G.ve_dict[v]
                /\ Acyclic(f)
                /\ f.ne = G.nv - Cardinality(ComponentsOf(G))
                /\ SumLen(f.ve_dict, Keys(f)) = 2 * f.ne)
    /\ [][(pc = "spanning_forest" \/ pc' = "spanning_forest") => G' = G]_vars

\* spanning_forest has returned on a graph that holds a cycle.
C7_Witness ==
    /\ res.op = "spanning_forest"
    /\ res.ret = "graph"
    /\ ~Acyclic(G)
    /\ res.graphs[1].ne = 2

\* C8: G.reverse() returns a digraph on the vertices of G with an edge v->w
\* exactly where G has w->v, whose ne and out-degree counters count those
\* edges; reversing the result gives the edge relation of G; G is unchanged.
C8_Reverse ==
    /\ [](res.op = "reverse" =>
            LET r == res.graphs[1]
            IN  /\ r.cls = "digraph"
                /\ Keys(r) = Keys(G)
                /\ \A v, w \in Keys(G) :
                      w \in r.ve_dict[v] <=> v \in G.ve_dict[w]
                /\ r.ne = SumLen(r.ve_dict, Keys(r))
                /\ \A v \in Keys(r) : r.degs[v] = Cardinality(r.ve_dict[v]))
    /\ [](res.op = "reverse.reverse" => res.graphs[1].ve_dict = G.ve_dict)
    /\ [][(pc = "idle" /\ res'.op \in {"reverse", "reverse.reverse"})
            => G' = G]_vars

\* The reverse of a reverse has been taken of a digraph with an edge whose
\* opposite edge is missing.
C8_Witness ==
    /\ res.op = "reverse.reverse"
    /\ \E v, w \in Keys(G) : w \in G.ve_dict[v] /\ v \notin G.ve_dict[w]

\* C9: G.subgraph(S) on a graph returns a graph whose vertex set is S, in
\* which u and v are adjacent iff they are in S and adjacent in G, and
\* leaves G unchanged.
C9_Subgraph ==
    [][(pc = "idle" /\ G.cls = "graph" /\ res'.op = "subgraph") =>
          \A S \in SUBSET Keys(G) :
             GraphSubgraph(S) =>
                LET h == res'.graphs[1]
                IN  /\ res'.ret = "graph"
                    /\ h.cls = "graph"
                    /\ Keys(h) = S
                    /\ \A u \in S : h.ve_dict[u] = G.ve_dict[u] \cap S
                    /\ G' = G]_vars

\* subgraph has returned two adjacent vertices of a graph in which one of
\* them has a neighbour that was left out.
C9_Witness ==
    /\ res.op = "subgraph"
    /\ res.ret = "graph"
    /\ res.graphs[1].nv = 2
    /\ res.graphs[1].ne = 1
    /\ G.ne >= 2

\* C10: G.subgraph(S) on a digraph completes and returns a digraph over S
\* whose edges v->w are the edges of G between vertices of S, with ne and
\* the out-degree counters counting them.
C10_DigraphSubgraph ==
    [][(pc = "idle" /\ G.cls = "digraph" /\ res'.op = "subgraph") =>
          \A S \in SUBSET Keys(G) :
             DigraphSubgraph(S) =>
                /\ res'.ret = "digraph"
                /\ Len(res'.graphs) = 1
                /\ LET h == res'.graphs[1]
                   IN  /\ h.cls = "digraph"
                       /\ Keys(h) = S
                       /\ \A v \in S : h.ve_dict[v] = G.ve_dict[v] \cap S
                       /\ h.ne = SumLen(h.ve_dict, S)
                       /\ \A v \in S :
                             h.degs[v] = Cardinality(h.ve_dict[v])]_vars

\* Every pair of distinct vertices of g is adjacent: every unordered pair in
\* a graph, every ordered pair in a digraph.
AllAdjacent(g) ==
    \A v, w \in Keys(g) :
       v # w => \/ w \in g.ve_dict[v]
                \/ g.cls = "graph" /\ v \in g.ve_dict[w]

\* C11: after any sequence of add_edge and add_rand_edge calls on an object
\* built with no seed edges, ne is at most nv*(nv-1)/2 in a graph and at most
\* nv*(nv-1) in a digraph, and is_complete() returns True iff every pair of
\* distinct vertices is adjacent.
C11_EdgeCountAndComplete ==
    /\ G.cls = "graph" => 2 * G.ne <= G.nv * (G.nv - 1)
    /\ G.cls = "digraph" => G.ne <= G.nv * (G.nv - 1)
    /\ res.op = "is_complete" =>
          /\ res.ret \in {"True", "False"}
          /\ res.ret = "True" <=> AllAdjacent(G)

\* is_complete has returned True on an object of three vertices.
C11_Witness ==
    /\ res.op = "is_complete"
    /\ res.ret = "True"
    /\ G.nv >= 3

\* The counters of g agree with its adjacency: degs[v] (out_deg[v]) is the
\* number of neighbours of v, and ne is half the sum of the degrees in a
\* graph, the sum of the out-degrees in a digraph.
CountersHold(g) ==
    /\ \A v \in Keys(g) : g.degs[v] = Cardinality(g.ve_dict[v])
    /\ g.cls = "graph" => 2 * g.ne = SumVals(g.degs, Keys(g))
    /\ g.cls = "digraph" => g.ne = SumVals(g.degs, Keys(g))

\* C12: every graph that subgraph returns (it is built by the constructor
\* from a seed edge mapping) and every entry of the list that
\* connected_components returns satisfies the counter invariants when it is
\* returned: degs[v] is the number of neighbours of v and ne is half the sum
\* of the degrees.
C12_DerivedCounters ==
    (res.op \in {"subgraph", "connected_components"}
        /\ res.ret \in {"graph", "list"}) =>
       \A k \in 1 .. Len(res.graphs) : CountersHold(res.graphs[k])

\* C13: a call of add_edge or add_rand_edge on a graph that subgraph,
\* reverse, spanning_forest or connected_components returned leaves the
\* adjacency, the degree counters and ne of the source G as they were, and
\* such a call on G leaves every returned graph as it was.
C13_NoSharedState ==
    [][(pc = "idle" /\ pc' = "idle") =>
          /\ res'.op \in {"derived.add_edge", "derived.add_rand_edge"}
                => G' = G
          /\ res'.op \in {"source.add_edge", "source.add_rand_edge"}
                => res'.graphs = res.graphs]_vars

\* An edge has been added to a source of two vertices while the caller holds
\* a derived graph to which the same edge was added before (the source had
\* no edge when the graph was derived).
C13_Witness ==
    /\ res.op = "source.add_edge"
    /\ res.ret = "True"
    /\ G.nv = 2
    /\ G.ne = 1
    /\ Len(res.graphs) >= 1
    /\ res.graphs[1].cls = "graph"
    /\ res.graphs[1].ne = 1

\* C14: on an object that is not complete, whatever random.random() draws
\* (0 and the cumulative-weight boundaries included), add_rand_edge never
\* selects a vertex of weight zero, so the list random.choice draws from is
\* never empty and the call does not raise.
C14_NoZeroWeightChoice ==
    [][(pc = "idle" /\ res'.op = "add_rand_edge" /\ ~Complete(G)) =>
          res'.ret # "IndexError"]_vars

\* C15: every add_rand_edge call on an object that is not complete adds
\* exactly one edge between two distinct vertices that were not adjacent:
\* ne grows by exactly 1 (so that nv*(nv-1)/2, in a digraph nv*(nv-1),
\* calls take an edgeless object to a complete one).
C15_OneNewEdge ==
    [][(pc = "idle" /\ res'.op = "add_rand_edge" /\ ~Complete(G)) =>
          /\ G'.ne = G.ne + 1
          /\ \E v, w \in Keys(G) :
                /\ v # w
                /\ w \notin G.ve_dict[v]
                /\ G' = IF G.cls = "graph" THEN graph_add_edge(G, v, w).g
                        ELSE digraph_add_edge(G, v, w).g]_vars

\* The numerator nv - deg(v) - 1 of the weight add_rand_edge gives v.
Weight(g, v) == g.nv - g.degs[v] - 1

\* The normaliser norm of add_rand_edge.
Norm(g) ==
    IF g.cls = "graph" THEN g.nv * (g.nv - 1) - 2 * g.ne
    ELSE g.nv * (g.nv - 1) - g.ne

\* On an object that is not complete the numerators are non-negative and
\* add up to norm.
WeightsSumToNorm ==
    ~Complete(G) =>
       /\ \A v \in Keys(G) : Weight(G, v) >= 0
       /\ SumVals([v \in Keys(G) |-> Weight(G, v)], Keys(G)) = Norm(G)

C17_SeedEdgesFiltered ==
    res.op = "init" =>
       /\ \A v \in Keys(G) : G.ve_dict[v] \subseteq Keys(G)
       /\ LET inner == Cardinality({e \in Edges(G) : e[2] \in Keys(G)})
          IN  IF G.cls = "graph" THEN 2 * G.ne = inner ELSE G.ne = inner

\* C18: adding an element to, or removing one from, the set that indexing
\* the object by a vertex returned leaves the adjacency of the object as it
\* was, so that the adjacency always agrees with the degree counters and ne.
C18_ReadOnlyView ==
    /\ [][(pc = "idle" /\ res'.op \in {"getitem.add", "getitem.discard"})
            => G'.ve_dict = G.ve_dict]_vars
    /\ []CountersHold(G)

\* C19: after dfs on a graph (symmetric adjacency), whatever order the
\* neighbour sets iterate in, the intervals of two adjacent vertices are
\* nested, never disjoint, and the 2*nv recorded timestamps are pairwise
\* distinct and are exactly the integers 0 .. 2*nv - 1.
C19_NoCrossEdges ==
    (res.op = "dfs" /\ res.ret = "dict" /\ G.cls = "graph") =>
       LET pp == res.pre_post
       IN  /\ \A v \in Keys(G) : Len(pp[v]) = 2
           /\ \A u \in Keys(G) : \A v \in G.ve_dict[u] :
                 Inside(pp, u, v) \/ Inside(pp, v, u)
           /\ UNION {{pp[v][1], pp[v][2]} : v \in Keys(G)}
                 = 0 .. (2 * G.nv - 1)

\* dfs has returned on a graph of three vertices with two edges or more.
C19_Witness ==
    /\ res.op = "dfs"
    /\ res.ret = "dict"
    /\ G.cls = "graph"
    /\ G.nv >= 3
    /\ G.ne >= 2

====
